---- MODULE Spec2Model ----
(***************************************************************************)
(* A model of bot.py (Icsan Search): the retry fetcher, the TTL cache, the *)
(* response cleaner, the cpf_full merge and the chat handlers that track   *)
(* and delete the bot's own messages.                                      *)
(*                                                                         *)
(* Each subsystem has its own specification (SpecFetch, SpecCache,         *)
(* SpecClean, SpecMerge, SpecCpfFull, SpecCpfOrder, SpecChat,              *)
(* SpecClassify, SpecHealth).  The variables of the subsystems a           *)
(* specification does not exercise stay at their idle value.               *)
(***************************************************************************)
EXTENDS Integers, Sequences, FiniteSets, TLC

VARIABLES
    fetch,      \* the running fetch_with_retries call (locals and its trace)
    CACHE,      \* key -> (expiry_ts, value)
    now,        \* time.time(), in seconds
    lastSet,    \* history: key -> the last cache_set made for it
    got,        \* the last cache_get call and what it returned
    cl,         \* the cleaner under test: input, first and second cleaning
    mg,         \* the merge under test: cleaned inputs and the merged result
    gather,     \* cpf_full's asyncio.gather: source -> result, or pending
    cf,         \* the cpf_full run after its gather: what it filtered and built
    LAST_BOT_MESSAGE,   \* chat_id -> message_id
    msgs,       \* the messages the bot sent to the chat; message_id = index
    deletes,    \* history: the message ids the bot called delete_message for
    user_data,  \* context.user_data["last_query"], "" when unset
    requests,   \* history: <<api_key, query>> -> fetch_with_retries calls made
    decided,    \* history: the last fetch result button_callback branched on
    API_STATUS, \* source -> the icon and latency recorded by the last probe
    hc,         \* the health check: where it is, and the probes made so far
    tasks       \* the handlers started so far, each with its position and locals

chatVars == <<LAST_BOT_MESSAGE, msgs, deletes, user_data, requests, decided, tasks>>
healthVars == <<API_STATUS, hc>>
vars == <<fetch, CACHE, now, lastSet, got, cl, mg, gather, cf, chatVars, healthVars>>

\* the value of a variable whose subsystem a specification does not exercise
IdleFetch == [pc |-> "idle"]
IdleCache == <<>>
IdleGot == [pc |-> "idle"]
IdleClean == [pc |-> "idle"]
IdleMerge == [pc |-> "idle"]
IdleCf == [pc |-> "idle"]
ChatIdle ==
    /\ LAST_BOT_MESSAGE = <<>> /\ msgs = <<>> /\ deletes = {}
    /\ user_data = "" /\ requests = <<>> /\ tasks = <<>> /\ decided = <<>>
GatherIdle == gather = <<>> /\ cf = IdleCf
IdleHc == [pc |-> "idle"]
HealthIdle == API_STATUS = <<>> /\ hc = IdleHc

\* ------------------------------------------------------------------ bounds
MaxNodes == 3           \* nodes of a JSON tree given to clean_api_data

\* ------------------------------------------------------- JSON-like trees
\* A Python value decoded from JSON: None, a str, a number, a list or a dict.
\* A dict keeps its insertion order: it is a sequence of <<key, value>>
\* pairs with distinct keys.
None == [t |-> "none"]
Str(s) == [t |-> "str", v |-> s]
Num(n) == [t |-> "num", v |-> n]
List(s) == [t |-> "list", v |-> s]
Dict(s) == [t |-> "dict", v |-> s]

IsDict(d) == d.t = "dict"
IsList(d) == d.t = "list"

Keys(d) == {d.v[i][1] : i \in 1..Len(d.v)}
Get(d, k) == d.v[CHOOSE i \in 1..Len(d.v) : d.v[i][1] = k][2]

\* d[k] = x on a dict: an existing key keeps its position, a new one is last.
DictSet(d, k, x) ==
    IF k \in Keys(d)
    THEN Dict([i \in 1..Len(d.v) |-> IF d.v[i][1] = k THEN <<k, x>> ELSE d.v[i]])
    ELSE Dict(Append(d.v, <<k, x>>))

\* Python's == on these values: dicts compare as mappings (order ignored),
\* lists element by element, scalars by type and value.
RECURSIVE PyEq(_, _)
PyEq(a, b) ==
    IF a.t # b.t THEN FALSE
    ELSE IF a.t = "none" THEN TRUE
    ELSE IF a.t = "list" THEN
        /\ Len(a.v) = Len(b.v)
        /\ \A i \in 1..Len(a.v) : PyEq(a.v[i], b.v[i])
    ELSE IF a.t = "dict" THEN
        /\ Keys(a) = Keys(b)
        /\ \A k \in Keys(a) : PyEq(Get(a, k), Get(b, k))
    ELSE a.v = b.v

\* x in [None, "", [], {}]
IsEmptyValue(x) ==
    \/ x.t = "none"
    \/ x.t = "str" /\ x.v = ""
    \/ x.t \in {"list", "dict"} /\ x.v = <<>>

\* x in lst, for a Python list given as a sequence
PyIn(x, s) == \E i \in 1..Len(s) : PyEq(s[i], x)

\* All trees of exactly n nodes over the scalars S and the keys K.
RECURSIVE TreesOfSize(_, _, _), Forests(_, _, _)
Forests(S, K, n) ==
    IF n = 0 THEN {<<>>}
    ELSE UNION {{<<x>> \o f : x \in TreesOfSize(S, K, k), f \in Forests(S, K, n - k)}
                : k \in 1..n}

KeySeqs(K, n) == {ks \in [1..n -> K] : \A i, j \in 1..n : i # j => ks[i] # ks[j]}

TreesOfSize(S, K, n) ==
    IF n = 1 THEN S \cup {List(<<>>), Dict(<<>>)}
    ELSE {List(f) : f \in Forests(S, K, n - 1)}
         \cup UNION {{Dict([i \in 1..Len(f) |-> <<ks[i], f[i]>>]) : ks \in KeySeqs(K, Len(f))}
                     : f \in Forests(S, K, n - 1)}

Trees(S, K, n) == UNION {TreesOfSize(S, K, k) : k \in 1..n}

\* -------------------------------------------------------------- cleaner
FIELDS_TO_REMOVE ==
    {"status", "message", "mensagem", "source", "token", "timestamp", "limit",
     "success", "code", "error"}

\* str.lower() on the keys the model uses
Lower(k) ==
    CASE k = "Status" -> "status"
      [] k = "MENSAGEM" -> "mensagem"
      [] OTHER -> k

\* [i for i in lst if i not in (None, "", [], {})]
RECURSIVE DropEmpty(_)
DropEmpty(s) ==
    IF s = <<>> THEN <<>>
    ELSE IF IsEmptyValue(Head(s)) THEN DropEmpty(Tail(s))
    ELSE <<Head(s)>> \o DropEmpty(Tail(s))

\* A mutant of clean_api_data's dict branch: the cleaned value is stored
\* without the second emptiness test.
RECURSIVE clean_api_data(_), CleanItemsKeepEmpty(_), CleanItems(_)
RECURSIVE CleanItemsKeepNoise(_)
CleanItemsKeepEmpty(s) ==
    IF s = <<>> THEN <<>>
    ELSE LET k == Head(s)[1]
             v == Head(s)[2]
             rest == CleanItemsKeepEmpty(Tail(s))
         IN  IF k = "" THEN rest
             ELSE IF Lower(k) \in FIELDS_TO_REMOVE THEN rest
             ELSE IF IsEmptyValue(v) THEN rest
             ELSE <<(<<k, clean_api_data(v)>>)>> \o rest

\* A mutant of the dict branch: the test against FIELDS_TO_REMOVE is missing.
CleanItemsKeepNoise(s) ==
    IF s = <<>> THEN <<>>
    ELSE LET k == Head(s)[1]
             v == Head(s)[2]
             rest == CleanItemsKeepNoise(Tail(s))
         IN  IF k = "" THEN rest
             ELSE IF IsEmptyValue(v) THEN rest
             ELSE LET cleaned == clean_api_data(v)
                  IN  IF IsEmptyValue(cleaned) THEN rest
                      ELSE <<(<<k, cleaned>>)>> \o rest

\* The loop over data.items() of clean_api_data: the pairs kept, in order.
CleanItems(s) ==
    IF s = <<>> THEN <<>>
    ELSE LET k == Head(s)[1]
             v == Head(s)[2]
             rest == CleanItems(Tail(s))
         IN  IF k = "" THEN rest
             ELSE IF Lower(k) \in FIELDS_TO_REMOVE THEN rest
             ELSE IF IsEmptyValue(v) THEN rest
             ELSE LET cleaned == clean_api_data(v)
                  IN  IF IsEmptyValue(cleaned) THEN rest
                      ELSE <<(<<k, cleaned>>)>> \o rest

\* A mutant of clean_api_data: the elements of a list are filtered but not
\* cleaned.
CleanListsUncleaned(data) ==
    IF IsDict(data) THEN Dict(CleanItems(data.v))
    ELSE IF IsList(data) THEN List(DropEmpty(data.v))
    ELSE data

clean_api_data(data) ==
    IF IsDict(data) THEN Dict(CleanItems(data.v))
    ELSE IF IsList(data) THEN
        List(DropEmpty([i \in 1..Len(data.v) |-> clean_api_data(data.v[i])]))
    ELSE data

\* The inputs of the cleaner: every tree of at most MaxNodes nodes.
CleanScalars == {None, Str(""), Str("JOAO"), Str("null"), Num(0)}
CleanKeys == {"nome", "Status", ""}
CleanInputs == Trees(CleanScalars, CleanKeys, MaxNodes)

OthersIdleForClean ==
    /\ fetch = IdleFetch /\ CACHE = IdleCache /\ now = 0
    /\ lastSet = IdleCache /\ got = IdleGot /\ mg = IdleMerge
    /\ GatherIdle /\ ChatIdle /\ HealthIdle

InitClean ==
    /\ cl \in {[pc |-> "input", data |-> x] : x \in CleanInputs}
    /\ OthersIdleForClean

\* cleaned = clean_api_data(result)
CleanOnce ==
    /\ cl.pc = "input"
    /\ cl' = [pc |-> "cleaned", data |-> cl.data, once |-> clean_api_data(cl.data)]
    /\ UNCHANGED <<fetch, CACHE, now, lastSet, got, mg, gather, cf, chatVars, healthVars>>

\* generate_txt_bytes cleans the already cleaned tree again
CleanTwice ==
    /\ cl.pc = "cleaned"
    /\ cl' = [pc |-> "recleaned", data |-> cl.data, once |-> cl.once,
              twice |-> clean_api_data(cl.once)]
    /\ UNCHANGED <<fetch, CACHE, now, lastSet, got, mg, gather, cf, chatVars, healthVars>>

NextClean == CleanOnce \/ CleanTwice

SpecClean == InitClean /\ [][NextClean]_vars

\* C3: clean_api_data is idempotent: cleaning a cleaned tree gives a tree equal
\* (Python ==, and pair for pair in the same order) to the cleaned tree.
C3_CleanIdempotent ==
    cl.pc = "recleaned" => cl.twice = cl.once /\ PyEq(cl.twice, cl.once)

\* C3 witness: a tree that cleaning changed (a nested value that became empty
\* only after its own cleaning) has been cleaned twice.
C3_Witness ==
    /\ cl.pc = "recleaned"
    /\ cl.once # cl.data
    /\ IsDict(cl.data) /\ cl.data.v # <<>> /\ cl.once = Dict(<<>>)
    /\ \E i \in 1..Len(cl.data.v) :
          /\ cl.data.v[i][1] = "nome"
          /\ ~IsEmptyValue(cl.data.v[i][2])

\* a key whose lower-cased form is in FIELDS_TO_REMOVE occurs in x, in a
\* dict at any depth
RECURSIVE HasNoiseKey(_)
HasNoiseKey(x) ==
    IF IsDict(x) THEN
        \E i \in 1..Len(x.v) :
            Lower(x.v[i][1]) \in FIELDS_TO_REMOVE \/ HasNoiseKey(x.v[i][2])
    ELSE IF IsList(x) THEN \E i \in 1..Len(x.v) : HasNoiseKey(x.v[i])
    ELSE FALSE

\* C11: the output of clean_api_data holds no key, at any depth (inside
\* dicts or inside list elements), whose lower-cased form is in
\* FIELDS_TO_REMOVE.
C11_NoNoiseKeyAtAnyDepth ==
    cl.pc \in {"cleaned", "recleaned"} => ~HasNoiseKey(cl.once)

\* C11 witness: a noise key nested below the top (in a dict inside a list or
\* inside a dict) was in the input, and the input has been cleaned.
C11_Witness ==
    /\ cl.pc = "cleaned"
    /\ (IsDict(cl.data) \/ IsList(cl.data))
    /\ \E i \in 1..Len(cl.data.v) :
          LET e == IF IsDict(cl.data) THEN cl.data.v[i][2] ELSE cl.data.v[i]
          IN  /\ IsDict(e) /\ e.v # <<>>
              /\ e.v[1][1] = "Status" /\ ~IsEmptyValue(e.v[1][2])

\* a dict of x, at any depth, holds a key whose value is null, "", the
\* string "null" or "None", [] or {}
RECURSIVE KeepsEmptyUnderKey(_)
KeepsEmptyUnderKey(x) ==
    IF IsDict(x) THEN
        \E i \in 1..Len(x.v) :
            LET v == x.v[i][2]
            IN  \/ IsEmptyValue(v)
                \/ v \in {Str("null"), Str("None")}
                \/ KeepsEmptyUnderKey(v)
    ELSE IF IsList(x) THEN \E i \in 1..Len(x.v) : KeepsEmptyUnderKey(x.v[i])
    ELSE FALSE

\* C12 as claimed: in the output of clean_api_data no key, at any depth,
\* keeps a value that is null, "", the string "null" or "None", [] or {}.
C12_NoEmptyValueUnderAKey ==
    cl.pc \in {"cleaned", "recleaned"} => ~KeepsEmptyUnderKey(cl.once)

\* every key of the dict d is a noise key
OnlyNoiseKeys(d) ==
    /\ IsDict(d) /\ d.v # <<>>
    /\ \A i \in 1..Len(d.v) : Lower(d.v[i][1]) \in FIELDS_TO_REMOVE

\* C13 as claimed: for a dict whose keys are all noise keys clean_api_data
\* returns None.
C13_OnlyNoiseGivesNone ==
    (cl.pc \in {"cleaned", "recleaned"} /\ OnlyNoiseKeys(cl.data)) => cl.once = None

\* C13 amended: for a dict whose keys are all noise keys clean_api_data
\* returns the empty dict {}, never None.
C13_OnlyNoiseGivesEmptyDict ==
    (cl.pc \in {"cleaned", "recleaned"} /\ OnlyNoiseKeys(cl.data)) => cl.once = Dict(<<>>)

\* C13 witness: a dict whose only key is a noise key with a value that is not
\* empty has been cleaned to {}.
C13_Witness ==
    /\ cl.pc = "cleaned"
    /\ OnlyNoiseKeys(cl.data)
    /\ ~IsEmptyValue(cl.data.v[1][2])
    /\ cl.once = Dict(<<>>)

\* two elements of the list x, or of a list inside x, are equal (Python ==)
RECURSIVE HasDuplicates(_)
HasDuplicates(x) ==
    IF IsList(x) THEN
        \/ \E i, j \in 1..Len(x.v) : i < j /\ PyEq(x.v[i], x.v[j])
        \/ \E i \in 1..Len(x.v) : HasDuplicates(x.v[i])
    ELSE IF IsDict(x) THEN \E i \in 1..Len(x.v) : HasDuplicates(x.v[i][2])
    ELSE FALSE

\* C14 as claimed: a cleaned list never holds two structurally equal
\* elements.
C14_CleanedListHasNoDuplicates ==
    cl.pc \in {"cleaned", "recleaned"} => ~HasDuplicates(cl.once)

\* -------------------------------------------------------------- fetcher
HTTP_RETRIES == 2
HTTP_BACKOFF == <<1, 2, 4>>

MaxRetries == 3         \* largest value of the parameter retries

Min(a, b) == IF a < b THEN a ELSE b

\* whether the string s contains the string u
Contains(s, u) ==
    \E i \in 1..(Len(s) - Len(u) + 1) : SubSeq(s, i, i + Len(u) - 1) = u

URLS == {"https://a.shop/cpf.php?cpf=1", "http://ip-api.com/json/2"}
Exceptions == {"ConnectError", "ReadTimeout"}

\* What HTTP_CLIENT.get can give back: a status and a body that is either a
\* JSON document or text that json() cannot parse.
NoResp == [status |-> 0]
Responses ==
    {[status |-> st, json |-> TRUE, body |-> b] :
        st \in {200, 500},
        b \in {Dict(<<(<<"nome", Str("JOAO")>>)>>), Dict(<<>>)}}
    \cup {[status |-> st, json |-> FALSE, body |-> Str(tx)] :
        st \in {200, 404}, tx \in {"Not Found"}}

\* {"status": "ERROR", "message": f"Falha ao acessar API ({url}): {last_exc}"}
ErrorValue(url, last_exc) ==
    Dict(<< <<"status", Str("ERROR")>>,
            <<"message", Str("Falha ao acessar API (" \o url \o "): " \o last_exc)>> >>)

\* isinstance(r, dict) and r.get("status") == "ERROR"
IsErrorValue(r) ==
    /\ IsDict(r)
    /\ "status" \in Keys(r)
    /\ Get(r, "status") = Str("ERROR")

\* A mutant of the loop bound: range(retries).
AttemptsOneLess(retries) == retries

\* range(retries + 1): the number of passes of the loop
Attempts(retries) == retries + 1

\* A mutant of the backoff choice: the attempt indexes the schedule unclamped
\* (and past its end the last delay is doubled).
BackoffUnclamped(attempt) ==
    IF attempt < Len(HTTP_BACKOFF) THEN HTTP_BACKOFF[attempt + 1]
    ELSE 2 * HTTP_BACKOFF[Len(HTTP_BACKOFF)]

\* HTTP_BACKOFF[min(attempt, len(HTTP_BACKOFF)-1)], attempt counted from 0
Backoff(attempt) == HTTP_BACKOFF[Min(attempt, Len(HTTP_BACKOFF) - 1) + 1]

\* try: return resp.json()  except: return {"_raw": text}
ParseBody(resp) ==
    IF resp.json THEN resp.body ELSE Dict(<<(<<"_raw", resp.body>>)>>)

OthersIdleForFetch ==
    /\ CACHE = IdleCache /\ now = 0 /\ lastSet = IdleCache /\ got = IdleGot
    /\ cl = IdleClean /\ mg = IdleMerge
    /\ GatherIdle /\ ChatIdle /\ HealthIdle

\* fetch_with_retries(url, retries=...) has been called: last_exc = None and
\* the loop is about to make its first pass.
InitFetch ==
    /\ fetch \in {[pc |-> "get", url |-> u, retries |-> r, attempt |-> 0,
                   last_exc |-> "None", excs |-> <<>>, sleeps |-> <<>>,
                   gets |-> 0, resp |-> NoResp, ret |-> None] :
                  u \in URLS, r \in 0..MaxRetries}
    /\ OthersIdleForFetch

\* One pass of the loop up to its await: the GET is issued and raises.
GetRaises ==
    /\ fetch.pc = "get"
    /\ \E e \in Exceptions :
        fetch' = [fetch EXCEPT !.pc = "sleep", !.gets = @ + 1, !.last_exc = e,
                               !.excs = Append(@, e)]
    /\ UNCHANGED <<CACHE, now, lastSet, got, cl, mg, gather, cf, chatVars, healthVars>>

\* The GET yields a response: its body is returned, parsed or wrapped.
GetResponds ==
    /\ fetch.pc = "get"
    /\ \E resp \in Responses :
        fetch' = [fetch EXCEPT !.pc = "done", !.gets = @ + 1, !.resp = resp,
                               !.ret = ParseBody(resp)]
    /\ UNCHANGED <<CACHE, now, lastSet, got, cl, mg, gather, cf, chatVars, healthVars>>

\* await asyncio.sleep(wait) in the except block, then the next pass of the
\* loop or, when the range is exhausted, the return of the ERROR value.
Sleep ==
    /\ fetch.pc = "sleep"
    /\ LET wait == Backoff(fetch.attempt)
           next == fetch.attempt + 1
       IN  IF next < Attempts(fetch.retries)
           THEN fetch' = [fetch EXCEPT !.pc = "get", !.attempt = next,
                                       !.sleeps = Append(@, wait)]
           ELSE fetch' = [fetch EXCEPT !.pc = "done", !.attempt = next,
                                       !.sleeps = Append(@, wait),
                                       !.ret = ErrorValue(fetch.url, fetch.last_exc)]
    /\ UNCHANGED <<CACHE, now, lastSet, got, cl, mg, gather, cf, chatVars, healthVars>>

NextFetch == GetRaises \/ GetResponds \/ Sleep

SpecFetch == InitFetch /\ [][NextFetch]_vars

AllAttemptsRaised == fetch.pc = "done" /\ fetch.resp = NoResp

\* C1: with retries = R at most R+1 GETs are issued; the call ends at the
\* first GET that yields a response (every earlier one raised); when every
\* GET raises there are exactly R+1 of them and the result is an ERROR
\* value whose message contains the URL.
C1_AttemptsAndError ==
    /\ fetch.gets <= fetch.retries + 1
    /\ fetch.resp # NoResp =>
          /\ fetch.pc = "done"
          /\ fetch.gets = Len(fetch.excs) + 1
          /\ fetch.ret = ParseBody(fetch.resp)
    /\ AllAttemptsRaised =>
          /\ fetch.gets = fetch.retries + 1
          /\ Len(fetch.excs) = fetch.retries + 1
          /\ IsErrorValue(fetch.ret)
          /\ Contains(Get(fetch.ret, "message").v, fetch.url)

\* C1 witness: the default retries = 2, every GET raised, 3 attempts made.
C1_Witness ==
    /\ AllAttemptsRaised
    /\ fetch.retries = HTTP_RETRIES
    /\ fetch.gets = 3
    /\ IsErrorValue(fetch.ret)

\* C8 as claimed: the fetcher sleeps after a failed attempt only if attempts
\* remain, so a finished call has slept once less than it has attempted, and
\* the sleep after failed attempt i lasts HTTP_BACKOFF[min(i, len-1)].
C8_SleepsOnlyBetweenAttempts ==
    /\ \A i \in 1..Len(fetch.sleeps) :
          fetch.sleeps[i] = HTTP_BACKOFF[Min(i - 1, Len(HTTP_BACKOFF) - 1) + 1]
    /\ fetch.pc = "done" => Len(fetch.sleeps) = fetch.gets - 1

\* C9 as claimed: a response with a non-2xx status is never returned as a
\* successful result: the call ends with the ERROR value.
C9_Non2xxIsNeverAResult ==
    (fetch.pc = "done" /\ fetch.resp # NoResp /\ fetch.resp.status \notin 200..299)
        => IsErrorValue(fetch.ret)

\* ---------------------------------------------------------------- cache
CACHE_TTL == 900

MaxTicks == 3           \* how often the clock advances in a run

CacheKeys == {"cpf_serasa:1", "ip_api:2"}
CacheValues == {Dict(<<(<<"nome", Str("JOAO")>>)>>), Dict(<<(<<"nome", Str("MARIA")>>)>>)}
TTLs == {1, CACHE_TTL}
TickSteps == {1, CACHE_TTL}

\* A mutant of the expiry test: time.time() >= expiry.
ExpiredAtExpiry(t, expiry) == t >= expiry

\* time.time() > expiry
Expired(t, expiry) == t > expiry

\* A mutant of cache_get that answers absent but leaves the entry in place.
CacheAfterGetNoEvict(key) == CACHE

\* CACHE after cache_get(key): an expired entry is deleted
CacheAfterGet(key) ==
    IF key \in DOMAIN CACHE /\ Expired(now, CACHE[key][1])
    THEN [k \in DOMAIN CACHE \ {key} |-> CACHE[k]]
    ELSE CACHE

\* what cache_get(key) returns
CacheGetValue(key) ==
    IF key \notin DOMAIN CACHE THEN None
    ELSE IF Expired(now, CACHE[key][1]) THEN None
    ELSE CACHE[key][2]

InitCache ==
    /\ CACHE = IdleCache
    /\ now = 0
    /\ lastSet = IdleCache
    /\ got = [pc |-> "none", ticks |-> 0]
    /\ fetch = IdleFetch /\ cl = IdleClean /\ mg = IdleMerge
    /\ GatherIdle /\ ChatIdle /\ HealthIdle

\* cache_set(key, value, ttl).  lastSet keeps the call for the claims.
cache_set ==
    /\ \E key \in CacheKeys, value \in CacheValues, ttl \in TTLs :
        /\ CACHE' = [k \in DOMAIN CACHE \cup {key} |->
                        IF k = key THEN <<now + ttl, value>> ELSE CACHE[k]]
        /\ lastSet' = [k \in DOMAIN lastSet \cup {key} |->
                        IF k = key THEN <<now + ttl, value>> ELSE lastSet[k]]
    /\ got' = [pc |-> "none", ticks |-> got.ticks]
    /\ UNCHANGED <<now, fetch, cl, mg, gather, cf, chatVars, healthVars>>

\* cache_get(key).  got keeps the call, what it returned and whether the key
\* is still in CACHE when it returns.
cache_get ==
    /\ \E key \in CacheKeys :
        /\ CACHE' = CacheAfterGet(key)
        /\ got' = [pc |-> "got", ticks |-> got.ticks, key |-> key,
                   ret |-> CacheGetValue(key), at |-> now,
                   kept |-> key \in DOMAIN CACHE']
    /\ UNCHANGED <<now, lastSet, fetch, cl, mg, gather, cf, chatVars, healthVars>>

\* time passes
Tick ==
    /\ got.ticks < MaxTicks
    /\ \E d \in TickSteps : now' = now + d
    /\ got' = [pc |-> "none", ticks |-> got.ticks + 1]
    /\ UNCHANGED <<CACHE, lastSet, fetch, cl, mg, gather, cf, chatVars, healthVars>>

NextCache == cache_set \/ cache_get \/ Tick

SpecCache == InitCache /\ [][NextCache]_vars

\* C2: cache_get(k) returns the value of the most recent cache_set(k, v, ttl)
\* exactly when the expiry of that entry has not passed; otherwise it returns
\* None and k is no longer in CACHE.
C2_GetServesOnlyLive ==
    got.pc = "got" =>
        IF got.key \in DOMAIN lastSet /\ got.at <= lastSet[got.key][1]
        THEN got.ret = lastSet[got.key][2] /\ got.kept
        ELSE got.ret = None /\ ~got.kept

\* C2 witness: a value was set, its expiry passed, and the cache_get that
\* followed returned None and removed the entry.
C2_Witness ==
    /\ got.pc = "got"
    /\ got.key \in DOMAIN lastSet
    /\ got.at > lastSet[got.key][1]
    /\ got.ret = None
    /\ got.key \notin DOMAIN CACHE

\* C2 second witness: a cache_get exactly at the expiry time is still served.
C2_WitnessLive ==
    /\ got.pc = "got"
    /\ got.key \in DOMAIN lastSet
    /\ got.at = lastSet[got.key][1]
    /\ got.ret = lastSet[got.key][2]

\* ---------------------------------------------------------------- merge
MaxMergeNodes == 3      \* nodes of a result given to the cpf_full merge
MaxInputs == 2          \* how many valid results the merge is given

\* A mutant of the inner loop: the test merged[k] != v is missing.
MergeItemNoEqTest(merged, k, v) ==
    IF k \notin Keys(merged) THEN DictSet(merged, k, v)
    ELSE LET existing0 == Get(merged, k)
             existing == IF ~IsList(existing0) THEN List(<<existing0>>) ELSE existing0
         IN  IF ~PyIn(v, existing.v)
             THEN DictSet(merged, k, List(Append(existing.v, v)))
             ELSE DictSet(merged, k, existing)

\* One pass of the inner loop of the merge: the pair k, v of an input, folded
\* into merged.
MergeItem(merged, k, v) ==
    IF k \notin Keys(merged) THEN DictSet(merged, k, v)
    ELSE IF ~PyEq(Get(merged, k), v) THEN
        LET existing0 == Get(merged, k)
            existing == IF ~IsList(existing0) THEN List(<<existing0>>) ELSE existing0
        IN  IF ~PyIn(v, existing.v)
            THEN DictSet(merged, k, List(Append(existing.v, v)))
            ELSE DictSet(merged, k, existing)
    ELSE merged

\* for k, v in d.items(), from the pair at position i on
RECURSIVE MergeItems(_, _, _)
MergeItems(merged, items, i) ==
    IF i > Len(items) THEN merged
    ELSE MergeItems(MergeItem(merged, items[i][1], items[i][2]), items, i + 1)

\* for d in cleaned_list: if isinstance(d, dict): ...
RECURSIVE MergeFrom(_, _, _)
MergeFrom(merged, cleaned_list, i) ==
    IF i > Len(cleaned_list) THEN merged
    ELSE IF IsDict(cleaned_list[i])
         THEN MergeFrom(MergeItems(merged, cleaned_list[i].v, 1), cleaned_list, i + 1)
         ELSE MergeFrom(merged, cleaned_list, i + 1)

\* merged: Dict[str, Any] = {} and the loop over cleaned_list
Merge(cleaned_list) == MergeFrom(Dict(<<>>), cleaned_list, 1)

\* cleaned_list = [clean_api_data(v) for v in valid_results]
CleanAll(valid_results) ==
    [i \in 1..Len(valid_results) |-> clean_api_data(valid_results[i])]

MergeScalars == {Str("JOAO"), Str("MARIA")}
MergeKeys == {"nome"}
\* the valid results: every dict of at most MaxMergeNodes nodes, four dicts
\* with a second key, and a result that is not a dict
MergeResults ==
    {x \in Trees(MergeScalars, MergeKeys, MaxMergeNodes) : IsDict(x)}
    \cup {List(<<Str("JOAO")>>)}
    \cup {Dict(<< <<"uf", Str("SP")>>, <<"nome", Str("JOAO")>> >>),
          Dict(<< <<"nome", Str("JOAO")>>, <<"uf", Str("SP")>> >>),
          Dict(<< <<"nome", Str("MARIA")>>, <<"uf", Str("SP")>>, <<"Status", Str("OK")>> >>),
          Dict(<<(<<"uf", Str("RJ")>>)>>)}

InitMerge ==
    /\ mg \in {[pc |-> "input", valid_results |-> r] :
                 r \in UNION {[1..n -> MergeResults] : n \in 1..MaxInputs}}
    /\ fetch = IdleFetch /\ CACHE = IdleCache /\ now = 0
    /\ lastSet = IdleCache /\ got = IdleGot /\ cl = IdleClean
    /\ GatherIdle /\ ChatIdle /\ HealthIdle

\* lines 468-484 of cmd_cpf_full: clean every valid result, then merge
MergeAll ==
    /\ mg.pc = "input"
    /\ LET cleaned_list == CleanAll(mg.valid_results)
       IN  mg' = [pc |-> "merged", valid_results |-> mg.valid_results,
                  cleaned_list |-> cleaned_list, merged |-> Merge(cleaned_list)]
    /\ UNCHANGED <<fetch, CACHE, now, lastSet, got, cl, gather, cf, chatVars, healthVars>>

\* generate_txt_bytes(..., merged, ...) cleans the merged mapping
MergeReport ==
    /\ mg.pc = "merged"
    /\ mg' = [pc |-> "reported", valid_results |-> mg.valid_results,
              cleaned_list |-> mg.cleaned_list, merged |-> mg.merged,
              report |-> clean_api_data(mg.merged)]
    /\ UNCHANGED <<fetch, CACHE, now, lastSet, got, cl, gather, cf, chatVars, healthVars>>

NextMerge == MergeAll \/ MergeReport

SpecMerge == InitMerge /\ [][NextMerge]_vars

\* the values the cleaned inputs hold under key k, in input order
RECURSIVE ValuesUnder(_, _, _)
ValuesUnder(cleaned_list, k, i) ==
    IF i > Len(cleaned_list) THEN <<>>
    ELSE IF IsDict(cleaned_list[i]) /\ k \in Keys(cleaned_list[i])
         THEN <<Get(cleaned_list[i], k)>> \o ValuesUnder(cleaned_list, k, i + 1)
         ELSE ValuesUnder(cleaned_list, k, i + 1)

\* the values of vals, a sequence value replaced by its elements
RECURSIVE Flatten(_)
Flatten(vals) ==
    IF vals = <<>> THEN <<>>
    ELSE (IF IsList(Head(vals)) THEN Head(vals).v ELSE <<Head(vals)>>)
         \o Flatten(Tail(vals))

\* s without the later copies of a value, by Python ==
RECURSIVE DistinctFrom(_, _)
DistinctFrom(s, seen) ==
    IF s = <<>> THEN seen
    ELSE IF PyIn(Head(s), seen) THEN DistinctFrom(Tail(s), seen)
    ELSE DistinctFrom(Tail(s), Append(seen, Head(s)))

Distinct(s) == DistinctFrom(s, <<>>)

MergedKeys == UNION {Keys(d) : d \in {x \in {mg.cleaned_list[i] : i \in 1..Len(mg.cleaned_list)} : IsDict(x)}}

\* C4 as claimed: for every key held by more than one cleaned input the
\* merged value is the common value when the inputs agree, and otherwise the
\* list of the distinct values met, in first-seen order, the elements of a
\* sequence value taken one by one.
C4_MergedIsCommonOrDistinctList ==
    mg.pc \in {"merged", "reported"} =>
        \A k \in MergedKeys :
            LET vals == ValuesUnder(mg.cleaned_list, k, 1)
            IN  Len(vals) > 1 =>
                    IF \A i \in 1..Len(vals) : PyEq(vals[i], vals[1])
                    THEN PyEq(Get(mg.merged, k), vals[1])
                    ELSE PyEq(Get(mg.merged, k), List(Distinct(Flatten(vals))))

\* the values present under key k of a merged dict: the elements of a list
\* value, or the one value
ValuesPresent(d, k) ==
    IF k \notin Keys(d) THEN <<>>
    ELSE IF IsList(Get(d, k)) THEN Get(d, k).v ELSE <<Get(d, k)>>

\* the sequences s and t hold the same set of values (Python ==)
SameValues(s, t) ==
    /\ \A i \in 1..Len(s) : PyIn(s[i], t)
    /\ \A i \in 1..Len(t) : PyIn(t[i], s)

\* C15 as claimed: for two cleaned mappings a and b and every key, the set
\* of values under the key in merge([a, b]) is the set in merge([b, a]).
C15_MergeOrderInsensitive ==
    (/\ mg.pc \in {"merged", "reported"}
     /\ Len(mg.cleaned_list) = 2
     /\ IsDict(mg.cleaned_list[1]) /\ IsDict(mg.cleaned_list[2]))
    => LET swapped == Merge(<<mg.cleaned_list[2], mg.cleaned_list[1]>>)
       IN  /\ Keys(mg.merged) = Keys(swapped)
           /\ \A k \in Keys(mg.merged) :
                 SameValues(ValuesPresent(mg.merged, k), ValuesPresent(swapped, k))

\* the dicts a and b agree on every key: the same keys with equal values
Agree(a, b) ==
    /\ IsDict(a) /\ IsDict(b) /\ Keys(a) = Keys(b)
    /\ \A k \in Keys(a) : PyEq(Get(a, k), Get(b, k))

\* C16: the merge of one cleaned mapping a is a, and the merge of two cleaned
\* mappings a and b that agree on every key is a: the same pairs in the
\* order of a, no value wrapped into a list.
C16_MergeIdentityOnAgreeing ==
    mg.pc \in {"merged", "reported"} =>
        LET a == mg.cleaned_list[1]
        IN  /\ (Len(mg.cleaned_list) = 1 /\ IsDict(a)) => mg.merged = a
            /\ (Len(mg.cleaned_list) = 2 /\ Agree(a, mg.cleaned_list[2]))
               => mg.merged = a /\ PyEq(mg.merged, mg.cleaned_list[2])

\* C16 witness: two agreeing mappings of two keys each, in different key
\* order, have been merged.
C16_Witness ==
    /\ mg.pc = "merged"
    /\ Len(mg.cleaned_list) = 2
    /\ Agree(mg.cleaned_list[1], mg.cleaned_list[2])
    /\ mg.cleaned_list[1] # mg.cleaned_list[2]
    /\ Len(mg.cleaned_list[1].v) = 2

\* C16 second witness: one mapping alone, holding a list value, was merged.
C16_WitnessSingle ==
    /\ mg.pc = "merged"
    /\ Len(mg.cleaned_list) = 1
    /\ IsDict(mg.cleaned_list[1])
    /\ \E i \in 1..Len(mg.cleaned_list[1].v) : IsList(mg.cleaned_list[1].v[i][2])

\* ------------------------------------------------------------ formatter
\* A str is kept by name; the text of LongText stands for a long upstream
\* field and is longer than the inline limit.
LongText == "LAUDO"
StrLen(s) == IF s = LongText THEN 4000 ELSE Len(s)

InlineLimit == 3500

IsScalar(x) == x.t \notin {"list", "dict"}

\* len(str(n)) for the numbers the model uses
Digits(n) == IF n < 10 THEN 1 ELSE 2

\* len(str(x)) for a scalar x
ScalarLen(x) ==
    CASE x.t = "none" -> 4
      [] x.t = "str" -> StrLen(x.v)
      [] OTHER -> Digits(x.v)

RECURSIVE SumSeq(_)
SumSeq(s) == IF s = <<>> THEN 0 ELSE Head(s) + SumSeq(Tail(s))

\* len(sep.join(parts)), parts and sep given by their lengths
JoinLen(parts, sep) ==
    IF parts = <<>> THEN 0 ELSE SumSeq(parts) + sep * (Len(parts) - 1)

\* format_txt, by the length of the text it returns: the lengths of the
\* entries of `lines`, joined by "\n".
RECURSIVE format_txt(_, _), DictLines(_, _), ItemLines(_, _, _, _)
DictLines(items, indent) ==
    IF items = <<>> THEN <<>>
    ELSE LET k == Head(items)[1]
             v == Head(items)[2]
             rest == DictLines(Tail(items), indent)
         IN  IF IsDict(v) THEN
                 <<indent + Len(k) + 1, format_txt(v, indent + 4)>> \o rest
             ELSE IF IsList(v) THEN
                 IF \A i \in 1..Len(v.v) : IsScalar(v.v[i])
                 THEN <<indent + Len(k) + 2
                         + JoinLen([i \in 1..Len(v.v) |-> ScalarLen(v.v[i])], 3)>> \o rest
                 ELSE <<indent + Len(k) + 1>>
                      \o ItemLines(v.v, 1, indent + 2, indent + 6) \o rest
             ELSE <<indent + Len(k) + 2 + ScalarLen(v)>> \o rest

\* the "- Item {i}:" line and the formatted item, for the items from i on
ItemLines(s, i, headIndent, bodyIndent) ==
    IF i > Len(s) THEN <<>>
    ELSE <<headIndent + 7 + Digits(i) + 1, format_txt(s[i], bodyIndent)>>
         \o ItemLines(s, i + 1, headIndent, bodyIndent)

format_txt(data, indent) ==
    IF IsDict(data) THEN JoinLen(DictLines(data.v, indent), 1)
    ELSE IF IsList(data) THEN JoinLen(ItemLines(data.v, 1, indent, indent + 2), 1)
    ELSE indent + ScalarLen(data)

\* A mutant of generate_txt_bytes that formats data without cleaning it.
generate_txt_bytes_unclean(data) ==
    [cleaned |-> data,
     body |-> IF format_txt(data, 0) > 0 THEN "report" ELSE "no_fields"]

\* generate_txt_bytes: the tree it formats and whether the body of the file
\* is the formatted report or "(sem campos relevantes)".
generate_txt_bytes(data) ==
    LET cleaned == clean_api_data(data)
    IN  [cleaned |-> cleaned,
         body |-> IF format_txt(cleaned, 0) > 0 THEN "report" ELSE "no_fields"]

\* ------------------------------------------------------ cpf_full gather
\* keys = [k for k in API_ENDPOINTS.keys() if k.startswith("cpf_")]
CpfSources ==
    <<"cpf_serasa", "cpf_assec", "cpf_bigdata", "cpf_datasus", "cpf_credilink", "cpf_spc">>

\* url_template.format(valor=...)
UrlFor(key, valor) == "https://" \o key \o ".php?cpf=" \o valor

Pending == [t |-> "pending"]
\* an exception that escaped a fetch: gather(return_exceptions=True) returns
\* it in the place of the result
Raised == [t |-> "exception"]

IsException(r) == r.t = "exception"

\* A mutant of the filter of cmd_cpf_full: ERROR values are kept.
ValidResultsKeepErrors(results) ==
    SelectSeq(results, LAMBDA r : ~IsException(r))

\* valid_results: the results that are neither an exception nor an ERROR value
ValidResults(results) ==
    SelectSeq(results, LAMBDA r : ~IsException(r) /\ ~IsErrorValue(r))

\* what a cpf_ source can answer for the cpf asked
SourceResults(key, cpf) ==
    {ErrorValue(UrlFor(key, cpf), "ConnectError"), Raised,
     Dict(<<(<<"nome", Str("JOAO")>>)>>),
     Dict(<< <<"Status", Str("OK")>>, <<"nome", Str("MARIA")>> >>)}

\* lines 452-494 of cmd_cpf_full on the gathered results: the filter, the
\* all-failed return or the cleaning, the merge and the text of the report
CpfFullBuild(results) ==
    LET valid_results == ValidResults(results)
    IN  IF valid_results = <<>>
        THEN [pc |-> "all_failed", valid_results |-> valid_results]
        ELSE LET cleaned_list == CleanAll(valid_results)
                 merged == Merge(cleaned_list)
             IN  [pc |-> "built", valid_results |-> valid_results,
                  cleaned_list |-> cleaned_list, merged |-> merged,
                  report |-> generate_txt_bytes(merged)]

Sources == 1..Len(CpfSources)
GatherCpf == "11111111111"

\* cmd_cpf_full at line 451: every cpf_ source has a fetch in flight
InitGather ==
    /\ gather = [i \in Sources |-> Pending]
    /\ cf = [pc |-> "gather_wait"]
    /\ fetch = IdleFetch /\ CACHE = IdleCache /\ now = 0 /\ lastSet = IdleCache
    /\ got = IdleGot /\ cl = IdleClean /\ mg = IdleMerge
    /\ ChatIdle /\ HealthIdle

\* the fetch of one source ends, in any order among the sources
FetchDone ==
    /\ cf.pc = "gather_wait"
    /\ \E i \in Sources :
        /\ gather[i] = Pending
        /\ \E r \in SourceResults(CpfSources[i], GatherCpf) :
              gather' = [gather EXCEPT ![i] = r]
    /\ UNCHANGED <<cf, fetch, CACHE, now, lastSet, got, cl, mg, chatVars, healthVars>>

\* asyncio.gather returns once every fetch has ended; the handler filters,
\* and either reports that every source failed or merges and builds the file
GatherDone ==
    /\ cf.pc = "gather_wait"
    /\ \A i \in Sources : gather[i] # Pending
    /\ cf' = CpfFullBuild(gather)
    /\ UNCHANGED <<gather, fetch, CACHE, now, lastSet, got, cl, mg, chatVars, healthVars>>

\* send_document: the file goes out, or the call raises and the handler
\* reports the failure to send
SendDocument ==
    /\ cf.pc = "built"
    /\ \E ok \in BOOLEAN : cf' = [cf EXCEPT !.pc = IF ok THEN "sent" ELSE "send_failed"]
    /\ UNCHANGED <<gather, fetch, CACHE, now, lastSet, got, cl, mg, chatVars, healthVars>>

NextGather == FetchDone \/ GatherDone \/ SendDocument

SpecCpfFull == InitGather /\ [][NextGather]_vars

\* a source failed: its fetch raised or returned an ERROR value
Failed(r) == r = Raised \/ (IsDict(r) /\ "status" \in Keys(r) /\ Get(r, "status") = Str("ERROR"))

Succeeded == {i \in Sources : ~Failed(gather[i])}

RECURSIVE SucceededFrom(_)
SucceededFrom(i) ==
    IF i > Len(CpfSources) THEN <<>>
    ELSE (IF i \in Succeeded THEN <<gather[i]>> ELSE <<>>) \o SucceededFrom(i + 1)

\* C5: once the gather has returned, the merge input holds exactly the
\* results of the sources that did not fail (in source order); the handler
\* reports that every source failed if and only if none succeeded, and
\* otherwise it builds (and hands to send_document) the report of the merge
\* of the cleaned successful results.
C5_PartialFailureTolerated ==
    cf.pc \in {"all_failed", "built", "sent", "send_failed"} =>
        /\ cf.valid_results = SucceededFrom(1)
        /\ cf.pc = "all_failed" <=> Succeeded = {}
        /\ Succeeded # {} =>
              /\ Len(cf.cleaned_list) = Cardinality(Succeeded)
              /\ \A j \in 1..Len(cf.cleaned_list) : ~IsErrorValue(cf.cleaned_list[j])
              /\ cf.merged = Merge(CleanAll(SucceededFrom(1)))
              /\ cf.report.cleaned = clean_api_data(cf.merged)

\* C5 witness: some sources failed (one raised, one returned ERROR), two
\* succeeded, and the report was built and sent.
C5_Witness ==
    /\ cf.pc = "sent"
    /\ \E i, j \in Sources : gather[i] = Raised /\ IsErrorValue(gather[j])
    /\ Cardinality(Succeeded) = 2
    /\ cf.report.body = "report"

\* C5 second witness: every source failed and the handler reported it.
C5_WitnessAllFailed ==
    /\ cf.pc = "all_failed"
    /\ \A i \in Sources : Failed(gather[i])

\* ------------------------------------------------------- chat handlers
\* One chat, one user.  Every update starts a handler; the handlers run as
\* concurrent tasks of one event loop and interleave at their awaits: an
\* action below is the code of one handler from one await to the next.
MaxUpdates == 3         \* updates received in a run

CHAT == "chat"
Queries == {"11111111111"}

\* callback_data of the buttons: a source of the /cpf menu, and an entry of
\* the /start keyboard, which names no source
ApiKeys == {"cpf_serasa"}
MenuKeys == {"menu_cpf"}

\* context.user_data.get("last_query") is falsy
NoQuery == ""

\* What fetch_with_retries can return to button_callback.
ButtonResults(url) ==
    {ErrorValue(url, "ReadTimeout"),
     Dict(<<>>),
     Dict(<<(<<"Status", Str("OK")>>)>>),
     Dict(<< <<"Status", Str("OK")>>, <<"nome", Str("JOAO")>> >>),
     Dict(<<(<<"laudo", Str(LongText)>>)>>)}

\* What the gather of cmd_cpf_full can return, source by source.
ChatGatherResults(cpf) ==
    {[i \in Sources |-> ErrorValue(UrlFor(CpfSources[i], cpf), "ConnectError")],
     [i \in Sources |-> IF i = 2 THEN Dict(<<(<<"nome", Str("JOAO")>>)>>)
                        ELSE IF i = 5 THEN Dict(<<(<<"nome", Str("MARIA")>>)>>)
                        ELSE ErrorValue(UrlFor(CpfSources[i], cpf), "ConnectError")],
     [i \in Sources |-> IF i = 1 THEN Dict(<<(<<"Status", Str("OK")>>)>>) ELSE Raised]}

\* `not result`
Falsy(x) == IsEmptyValue(x) \/ (x.t = "num" /\ x.v = 0)

\* A mutant of the branch: the test of an empty cleaned_text is missing.
ButtonOutcomeNoEmptyTest(result) ==
    IF Falsy(result) THEN "sem_resposta"
    ELSE IF IsErrorValue(result) THEN "error_msg"
    ELSE IF format_txt(clean_api_data(result), 0) <= InlineLimit THEN "inline" ELSE "file"

\* The branch button_callback takes on the result of the fetch (lines
\* 372-399): the message for an empty result, the message for an ERROR
\* value, the result shown inline, or the result sent as a .txt file.
ButtonOutcome(result) ==
    IF Falsy(result) THEN "sem_resposta"
    ELSE IF IsErrorValue(result) THEN "error_msg"
    ELSE LET cleaned_text == format_txt(clean_api_data(result), 0)
         IN  IF cleaned_text > 0 /\ cleaned_text <= InlineLimit THEN "inline" ELSE "file"

\* tasks with task h set to t; h may be the next new task
SetTask(h, t) == IF h > Len(tasks) THEN Append(tasks, t) ELSE [tasks EXCEPT ![h] = t]

NewTask(kind, key, query) ==
    [kind |-> kind, pc |-> "start", key |-> key, query |-> query,
     status_msg |-> 0, call |-> 0, ok |-> TRUE, next |-> "",
     outcome |-> "", body |-> ""]

\* a handler that has returned: its locals are gone
Finished(t) ==
    [t EXCEPT !.pc = "done", !.call = 0, !.ok = TRUE, !.next = "", !.key = "",
              !.status_msg = 0, !.query = NoQuery, !.outcome = "", !.body = ""]

Message(kind, kb) == [kind |-> kind, kb |-> kb, deleted |-> FALSE]

\* the reply_markup of the message a handler sends
KeyboardOf(t) ==
    CASE t.kind = "start" -> "menu"
      [] t.kind = "menu" /\ t.query # NoQuery -> "api"
      [] OTHER -> "none"

Tracked == CHAT \in DOMAIN LAST_BOT_MESSAGE

\* _set_last_bot_message(chat_id, message_id)
set_last_bot_message(mid) == [c \in {CHAT} |-> mid]

\* LAST_BOT_MESSAGE.pop(chat_id, None)
PopLast == [c \in {} |-> 0]

InitChat ==
    /\ LAST_BOT_MESSAGE = <<>>
    /\ msgs = <<>>
    /\ deletes = {}
    /\ user_data = NoQuery
    /\ requests = [p \in {} |-> 0]
    /\ tasks = <<>>
    /\ decided = <<>>
    /\ fetch = IdleFetch /\ CACHE = IdleCache /\ now = 0 /\ lastSet = IdleCache
    /\ got = IdleGot /\ cl = IdleClean /\ mg = IdleMerge /\ GatherIdle /\ HealthIdle

NotChat == <<fetch, CACHE, now, lastSet, got, cl, mg, gather, cf, healthVars>>

\* requests after one more fetch_with_retries call for each pair of ps
Requested(ps) ==
    [p \in DOMAIN requests \cup ps |->
        (IF p \in DOMAIN requests THEN requests[p] ELSE 0) + (IF p \in ps THEN 1 ELSE 0)]

\* the buttons the user can press: those of a message that is still there
Pressable ==
    (IF \E i \in 1..Len(msgs) : msgs[i].kb = "api" /\ ~msgs[i].deleted THEN ApiKeys ELSE {})
    \cup (IF \E i \in 1..Len(msgs) : msgs[i].kb = "menu" /\ ~msgs[i].deleted THEN MenuKeys ELSE {})

\* bot.send_message is called by task h (updated to t): the message exists
\* from now on, the handler waits for the call to return.
SendMessage(h, t) ==
    /\ msgs' = Append(msgs, Message("text", KeyboardOf(t)))
    /\ tasks' = SetTask(h, [t EXCEPT !.pc = "send_wait", !.call = Len(msgs) + 1])

\* bot.send_document is called: the file message exists from now on, or the
\* call will raise.
SendDocumentCall(h, t) ==
    \E ok \in BOOLEAN :
        /\ msgs' = IF ok THEN Append(msgs, Message("document", "none")) ELSE msgs
        /\ tasks' = SetTask(h, [t EXCEPT !.pc = "doc_wait", !.ok = ok,
                                          !.call = IF ok THEN Len(msgs) + 1 ELSE 0])

\* the call that follows _delete_last_bot_message in the handler
CallAfterDelete(h, t) ==
    IF t.next = "send_document" THEN SendDocumentCall(h, t) ELSE SendMessage(h, t)

\* _delete_last_bot_message up to its await, and on when it returns at once:
\* with nothing tracked the handler goes straight on to its next call; else
\* delete_message is called for the tracked id (it raises if that message is
\* already gone) and the handler waits.
DeleteLastThen(h, t) ==
    IF ~Tracked
    THEN /\ CallAfterDelete(h, t)
         /\ UNCHANGED <<LAST_BOT_MESSAGE, deletes>>
    ELSE LET mid == LAST_BOT_MESSAGE[CHAT]
         IN  /\ deletes' = deletes \cup {mid}
             /\ msgs' = [msgs EXCEPT ![mid].deleted = TRUE]
             /\ tasks' = SetTask(h, [t EXCEPT !.pc = "del_wait", !.call = mid,
                                               !.ok = ~msgs[mid].deleted])
             /\ UNCHANGED LAST_BOT_MESSAGE

\* telegram_webhook: an update arrives and its handler runs up to its first
\* await.  cmd_start, the menu commands given a value (cmd_cpf_menu_handler,
\* cmd_nome, ...), text_handler_detect on a value it recognises and
\* cmd_cpf_full begin by deleting the last bot message; the menu commands
\* have stored last_query before.
ArriveWithDelete ==
    /\ Len(tasks) < MaxUpdates
    /\ \E t \in {NewTask("start", "", NoQuery)}
             \cup {NewTask("menu", "", q) : q \in Queries}
             \cup {NewTask("text", "", q) : q \in Queries}
             \cup {NewTask("cpf_full", "", q) : q \in Queries \cup {NoQuery}} :
          /\ user_data' = IF t.kind = "menu" THEN t.query ELSE user_data
          /\ DeleteLastThen(Len(tasks) + 1, [t EXCEPT !.next = "send_message"])
    /\ UNCHANGED <<requests, decided, NotChat>>

\* cmd_status, and a menu command given no value (the usage message)
ArriveWithSend ==
    /\ Len(tasks) < MaxUpdates
    /\ \E t \in {NewTask("status", "", NoQuery), NewTask("menu", "", NoQuery)} :
          SendMessage(Len(tasks) + 1, t)
    /\ UNCHANGED <<LAST_BOT_MESSAGE, deletes, user_data, requests, decided, NotChat>>

\* a button of a message that is still there is pressed:
\* button_callback runs up to await q.answer()
ArriveButton ==
    /\ Len(tasks) < MaxUpdates
    /\ \E k \in Pressable :
          tasks' = Append(tasks, [NewTask("button", k, NoQuery) EXCEPT !.pc = "answer_wait"])
    /\ UNCHANGED <<LAST_BOT_MESSAGE, msgs, deletes, user_data, requests, decided, NotChat>>

\* button_callback after q.answer(): without a last_query the session has
\* expired; else the last bot message is deleted and the status message sent
ButtonAnswered(h) ==
    LET t == tasks[h]
    IN  /\ t.pc = "answer_wait"
        /\ IF user_data = NoQuery
           THEN /\ tasks' = [tasks EXCEPT ![h] = Finished(t)]
                /\ UNCHANGED <<LAST_BOT_MESSAGE, msgs, deletes>>
           ELSE DeleteLastThen(h, [t EXCEPT !.query = user_data, !.next = "send_message"])
        /\ UNCHANGED <<user_data, requests, decided, NotChat>>

\* delete_message has returned: on success the entry of the chat is popped;
\* the handler goes on to its next call
DeleteReturns(h) ==
    LET t == tasks[h]
    IN  /\ t.pc = "del_wait"
        /\ LAST_BOT_MESSAGE' = IF t.ok THEN PopLast ELSE LAST_BOT_MESSAGE
        /\ CallAfterDelete(h, t)
        /\ UNCHANGED <<deletes, user_data, requests, decided, NotChat>>

\* send_message has returned.  cmd_status tracks nothing; every other handler
\* tracks the message.  text_handler_detect then stores last_query;
\* button_callback sleeps, edits the status message and calls
\* fetch_with_retries for the source (or reports an unknown API);
\* cmd_cpf_full given a cpf starts one fetch per cpf_ source and gathers.
SendReturns(h) ==
    LET t == tasks[h]
        tracked == [t EXCEPT !.status_msg = t.call, !.call = 0]
    IN  /\ t.pc = "send_wait"
        /\ LAST_BOT_MESSAGE' =
              IF t.kind = "status" THEN LAST_BOT_MESSAGE ELSE set_last_bot_message(t.call)
        /\ user_data' = IF t.kind = "text" THEN t.query ELSE user_data
        /\ IF t.kind = "button" /\ t.key \in ApiKeys THEN
               /\ requests' = Requested({<<t.key, t.query>>})
               /\ tasks' = [tasks EXCEPT ![h] = [tracked EXCEPT !.pc = "fetch_wait"]]
           ELSE IF t.kind = "button" THEN
               /\ tasks' = [tasks EXCEPT ![h] = Finished(t)]
               /\ UNCHANGED requests
           ELSE IF t.kind = "cpf_full" /\ t.query # NoQuery THEN
               /\ requests' = Requested({<<CpfSources[i], t.query>> : i \in Sources})
               /\ tasks' = [tasks EXCEPT ![h] = [tracked EXCEPT !.pc = "gather_wait"]]
           ELSE
               /\ tasks' = [tasks EXCEPT ![h] = Finished(t)]
               /\ UNCHANGED requests
        /\ UNCHANGED <<msgs, deletes, decided, NotChat>>

\* fetch_with_retries has returned to button_callback (lines 369-405): an
\* empty result and an ERROR value each get their message and the handler
\* returns; a short text is edited into the status message; otherwise the
\* status message is edited to announce the file.
FetchReturns(h) ==
    LET t == tasks[h]
    IN  /\ t.pc = "fetch_wait"
        /\ \E result \in ButtonResults(UrlFor(t.key, t.query)) :
            LET outcome == ButtonOutcome(result)
                body == IF outcome = "file"
                        THEN generate_txt_bytes(clean_api_data(result)).body ELSE ""
                u == [t EXCEPT !.outcome = outcome, !.body = body]
            IN  /\ decided' = <<[result |-> result, outcome |-> outcome, body |-> body]>>
                /\ tasks' = [tasks EXCEPT ![h] =
                    CASE outcome \in {"sem_resposta", "error_msg"} -> Finished(u)
                      [] outcome = "inline" ->
                            [u EXCEPT !.pc = "final_edit_wait",
                                      !.ok = ~msgs[t.status_msg].deleted]
                      [] OTHER -> [u EXCEPT !.pc = "doc_edit_wait"]]
        /\ UNCHANGED <<LAST_BOT_MESSAGE, msgs, deletes, user_data, requests, NotChat>>

\* the edit that shows the result inline has returned: the status message
\* stays tracked; if the edit raised, the text is sent as a new message
FinalEditReturns(h) ==
    LET t == tasks[h]
    IN  /\ t.pc = "final_edit_wait"
        /\ IF t.ok
           THEN /\ LAST_BOT_MESSAGE' = set_last_bot_message(t.status_msg)
                /\ tasks' = [tasks EXCEPT ![h] = Finished(t)]
                /\ UNCHANGED msgs
           ELSE /\ msgs' = Append(msgs, Message("text", "none"))
                /\ tasks' = [tasks EXCEPT ![h] =
                                [t EXCEPT !.pc = "fallback_wait", !.call = Len(msgs) + 1]]
                /\ UNCHANGED LAST_BOT_MESSAGE
        /\ UNCHANGED <<deletes, user_data, requests, decided, NotChat>>

\* the fallback send_message has returned: the new message is tracked
FallbackReturns(h) ==
    LET t == tasks[h]
    IN  /\ t.pc = "fallback_wait"
        /\ LAST_BOT_MESSAGE' = set_last_bot_message(t.call)
        /\ tasks' = [tasks EXCEPT ![h] = Finished(t)]
        /\ UNCHANGED <<msgs, deletes, user_data, requests, decided, NotChat>>

\* asyncio.gather has returned to cmd_cpf_full (lines 452-491)
GatherReturns(h) ==
    LET t == tasks[h]
    IN  /\ t.pc = "gather_wait"
        /\ \E results \in ChatGatherResults(t.query) :
            LET b == CpfFullBuild(results)
            IN  tasks' = [tasks EXCEPT ![h] =
                    IF b.pc = "all_failed"
                    THEN Finished(t)
                    ELSE [t EXCEPT !.pc = "doc_edit_wait", !.outcome = "file",
                                   !.body = b.report.body]]
        /\ UNCHANGED <<LAST_BOT_MESSAGE, msgs, deletes, user_data, requests, decided, NotChat>>

\* the edit that announces the file has returned (both handlers): the file
\* is built, the last bot message deleted and send_document called
DocEditReturns(h) ==
    LET t == tasks[h]
    IN  /\ t.pc = "doc_edit_wait"
        /\ DeleteLastThen(h, [t EXCEPT !.next = "send_document"])
        /\ UNCHANGED <<user_data, requests, decided, NotChat>>

\* send_document has returned: the file message is tracked as the last bot
\* message; if the call raised the log channel is notified
DocSendReturns(h) ==
    LET t == tasks[h]
    IN  /\ t.pc = "doc_wait"
        /\ IF t.ok
           THEN /\ LAST_BOT_MESSAGE' = set_last_bot_message(t.call)
                /\ tasks' = [tasks EXCEPT ![h] = Finished(t)]
           ELSE /\ tasks' = [tasks EXCEPT ![h].pc = "notify_wait"]
                /\ UNCHANGED LAST_BOT_MESSAGE
        /\ UNCHANGED <<msgs, deletes, user_data, requests, decided, NotChat>>

\* notify_log_channel_text has returned: the error message is sent to the
\* chat and not tracked
NotifyReturns(h) ==
    LET t == tasks[h]
    IN  /\ t.pc = "notify_wait"
        /\ msgs' = Append(msgs, Message("text", "none"))
        /\ tasks' = [tasks EXCEPT ![h] = Finished(t)]
        /\ UNCHANGED <<LAST_BOT_MESSAGE, deletes, user_data, requests, decided, NotChat>>

Handlers == 1..Len(tasks)

NextChat ==
    \/ ArriveWithDelete
    \/ ArriveWithSend
    \/ ArriveButton
    \/ \E h \in Handlers : ButtonAnswered(h)
    \/ \E h \in Handlers : DeleteReturns(h)
    \/ \E h \in Handlers : SendReturns(h)
    \/ \E h \in Handlers : FetchReturns(h)
    \/ \E h \in Handlers : FinalEditReturns(h)
    \/ \E h \in Handlers : FallbackReturns(h)
    \/ \E h \in Handlers : GatherReturns(h)
    \/ \E h \in Handlers : DocEditReturns(h)
    \/ \E h \in Handlers : DocSendReturns(h)
    \/ \E h \in Handlers : NotifyReturns(h)

SpecChat == InitChat /\ [][NextChat]_vars

Documents == {i \in 1..Len(msgs) : msgs[i].kind = "document"}

\* C6 as claimed: the bot never calls delete_message for the message id of a
\* .txt document it sent.
C6_DocumentsNeverDeleted == deletes \cap Documents = {}

\* C7 as claimed: the ERROR message is shown only for ERROR values, and a
\* fetch that succeeded without data (an empty response, or one empty after
\* cleaning) ends in the "no relevant fields" file.
C7_EmptyIsNoRelevantFields ==
    \A i \in 1..Len(decided) :
        LET d == decided[i]
        IN  /\ d.outcome = "error_msg" => IsErrorValue(d.result)
            /\ (~IsErrorValue(d.result)
                  /\ (Falsy(d.result) \/ IsEmptyValue(clean_api_data(d.result))))
               => d.outcome = "file" /\ d.body = "no_fields"

\* C7 amended: the ERROR message is shown only for ERROR values; a response
\* that is not empty but is empty after cleaning ends in the "no relevant
\* fields" file; an empty response gets the separate message "Erro na
\* consulta (sem resposta).", not the message shown for ERROR values.
C7_EmptyCleanedIsNoRelevantFields ==
    \A i \in 1..Len(decided) :
        LET d == decided[i]
        IN  /\ d.outcome = "error_msg" => IsErrorValue(d.result) /\ ~Falsy(d.result)
            /\ Falsy(d.result) => d.outcome = "sem_resposta"
            /\ (~Falsy(d.result) /\ ~IsErrorValue(d.result)
                  /\ IsEmptyValue(clean_api_data(d.result)))
               => d.outcome = "file" /\ d.body = "no_fields"

\* C7 witness: a response that held only a noise field was sent as the "no
\* relevant fields" file.
C7_Witness ==
    /\ decided = <<[result |-> Dict(<<(<<"Status", Str("OK")>>)>>),
                   outcome |-> "file", body |-> "no_fields"]>>
    /\ Documents # {}
    /\ \A h \in Handlers : tasks[h].pc = "done"

\* C7 second witness: an empty response got the "sem resposta" message.
C7_WitnessEmpty ==
    decided = <<[result |-> Dict(<<>>), outcome |-> "sem_resposta", body |-> ""]>>

\* C17 as claimed: when a flow sends its .txt document, the status message
\* that flow created has been deleted (delete_message was called for it).
C17_StatusDeletedBeforeDocument ==
    \A h \in Handlers :
        (tasks[h].pc = "doc_wait" /\ tasks[h].ok) => msgs[tasks[h].status_msg].deleted

\* a step in which the delete_message awaited by handler h returns
DeleteReturned(h) ==
    /\ h \in Handlers
    /\ tasks[h].pc = "del_wait"
    /\ tasks'[h].pc # "del_wait"

\* C21 as claimed: when delete_message returns, _delete_last_bot_message
\* removes the entry of LAST_BOT_MESSAGE only if it is the id it deleted: an
\* id another handler recorded for the chat while the call was in flight
\* stays tracked.
C21_PopKeepsNewerEntry ==
    [][\A h \in 1..MaxUpdates :
          (DeleteReturned(h) /\ Tracked /\ LAST_BOT_MESSAGE[CHAT] # tasks[h].call)
          => LAST_BOT_MESSAGE' = LAST_BOT_MESSAGE]_vars

\* C10 as claimed: within the cache TTL (the clock does not advance in these
\* runs) the same source is not asked twice for the same value: the second
\* lookup is answered from CACHE.
C10_NoSecondRequestWithinTtl ==
    \A p \in DOMAIN requests : requests[p] <= 1

\* --------------------------------------------------------------- health
\* Latencies are counted in tenths of a second: 2.0 s is 20 and 6.0 s is 60.
MaxLatency == 70        \* the largest latency given to the classifier
MaxProbed == 3          \* sources of API_ENDPOINTS the health check probes

\* the icons 🟢, 🟡 and 🔴
GREEN == "green"
YELLOW == "yellow"
RED == "red"

\* A mutant of the classifier: the thresholds are inclusive.
classify_inclusive(rt_seconds) ==
    IF rt_seconds = None THEN RED
    ELSE IF rt_seconds.v <= 20 THEN GREEN
    ELSE IF rt_seconds.v <= 60 THEN YELLOW
    ELSE RED

classify_response_time(rt_seconds) ==
    IF rt_seconds = None THEN RED
    ELSE IF rt_seconds.v < 20 THEN GREEN
    ELSE IF rt_seconds.v < 60 THEN YELLOW
    ELSE RED

NotHealth == <<fetch, CACHE, now, lastSet, got, cl, mg, gather, cf, chatVars>>

OthersIdleForHealth ==
    /\ fetch = IdleFetch /\ CACHE = IdleCache /\ now = 0 /\ lastSet = IdleCache
    /\ got = IdleGot /\ cl = IdleClean /\ mg = IdleMerge
    /\ GatherIdle /\ ChatIdle

\* the inputs of the classifier: None and every latency up to MaxLatency
ClassifyInputs == {None} \cup {Num(n) : n \in 0..MaxLatency}

InitClassify ==
    /\ hc \in {[pc |-> "input", rt_seconds |-> x] : x \in ClassifyInputs}
    /\ API_STATUS = <<>>
    /\ OthersIdleForHealth

Classify ==
    /\ hc.pc = "input"
    /\ hc' = [pc |-> "classified", rt_seconds |-> hc.rt_seconds,
              icon |-> classify_response_time(hc.rt_seconds)]
    /\ UNCHANGED <<API_STATUS, NotHealth>>

NextClassify == Classify

SpecClassify == InitClassify /\ [][NextClassify]_vars

\* C18: classify_response_time gives 🔴 for None, 🟢 below 2.0 s, 🟡 from 2.0 s
\* up to but excluding 6.0 s and 🔴 from 6.0 s on: always one of the three.
C18_ClassifyLevels ==
    hc.pc = "classified" =>
        LET rt == hc.rt_seconds
        IN  /\ hc.icon \in {GREEN, YELLOW, RED}
            /\ rt = None => hc.icon = RED
            /\ (rt # None /\ rt.v < 20) => hc.icon = GREEN
            /\ (rt # None /\ rt.v >= 20 /\ rt.v < 60) => hc.icon = YELLOW
            /\ (rt # None /\ rt.v >= 60) => hc.icon = RED

\* C18 witness: a latency of exactly 2.0 s was classified as slow.
C18_Witness ==
    hc = [pc |-> "classified", rt_seconds |-> Num(20), icon |-> YELLOW]

\* C18 second witness: a latency of exactly 6.0 s was classified as down.
C18_WitnessDown ==
    hc = [pc |-> "classified", rt_seconds |-> Num(60), icon |-> RED]

\* C18 third witness: a missing latency was classified as down.
C18_WitnessNone ==
    hc = [pc |-> "classified", rt_seconds |-> None, icon |-> RED]

\* the sources check_api_health probes, in the order of API_ENDPOINTS
HealthKeys == SubSeq(CpfSources, 1, MaxProbed)

\* the latencies a probe can measure: fast, 2.0 s, slow, 6.0 s
ProbeLatencies == {5, 20, 45, 60}

\* API_STATUS[key] = entry
StatusSet(key, entry) ==
    [k \in DOMAIN API_STATUS \cup {key} |-> IF k = key THEN entry ELSE API_STATUS[k]]

\* the loop of check_api_health moves to the next key, or the check returns
\* and startup_event starts the bot
AfterProbe ==
    IF hc.i < Len(HealthKeys)
    THEN [hc EXCEPT !.i = hc.i + 1, !.probes[hc.i] = hc.probes[hc.i] + 1]
    ELSE [hc EXCEPT !.pc = "running", !.i = 0, !.probes[hc.i] = hc.probes[hc.i] + 1]

\* startup_event has called check_api_health: nothing is recorded yet
InitHealth ==
    /\ API_STATUS = <<>>
    /\ hc = [pc |-> "probe", i |-> 1, probes |-> [j \in 1..Len(HealthKeys) |-> 0],
             shown |-> <<>>]
    /\ OthersIdleForHealth

\* the GET of the probe returns: the latency is classified and recorded
ProbeResponds ==
    /\ hc.pc = "probe"
    /\ \E rt \in ProbeLatencies :
          API_STATUS' = StatusSet(HealthKeys[hc.i],
                            [icon |-> classify_response_time(Num(rt)), rt |-> Num(rt)])
    /\ hc' = AfterProbe
    /\ UNCHANGED NotHealth

\* the GET of the probe raises: 🔴 and no latency are recorded
ProbeRaises ==
    /\ hc.pc = "probe"
    /\ API_STATUS' = StatusSet(HealthKeys[hc.i], [icon |-> RED, rt |-> None])
    /\ hc' = AfterProbe
    /\ UNCHANGED NotHealth

\* cmd_status, while the bot runs: the recorded statuses are shown
ShowStatus ==
    /\ hc.pc = "running"
    /\ hc' = [hc EXCEPT !.shown = API_STATUS]
    /\ UNCHANGED <<API_STATUS, NotHealth>>

NextHealth == ProbeResponds \/ ProbeRaises \/ ShowStatus

\* the event loop runs whatever is ready
SpecHealth == InitHealth /\ [][NextHealth]_vars /\ WF_vars(NextHealth)

\* C19 as claimed: at any point of a run every source is eventually probed
\* again (and its recorded status replaced by the result of that probe).
C19_EverySourceProbedAgain ==
    \A j \in 1..MaxProbed : []<>(hc.pc = "probe" /\ hc.i = j)

\* ------------------------------------------- cpf_full completion order
\* The fetches of cmd_cpf_full with the answer of every source fixed, ending
\* in any order; cf.order records the order in which they ended.

\* the answers of the sources, source by source
FixedResponses ==
    ChatGatherResults(GatherCpf)
    \cup {[i \in Sources |->
             CASE i = 1 -> Dict(<<(<<"nome", Str("JOAO")>>)>>)
               [] i = 3 -> Dict(<<(<<"nome", List(<<Str("MARIA")>>)>>)>>)
               [] i = 4 -> Raised
               [] i = 6 -> Dict(<< <<"uf", Str("SP")>>, <<"nome", Str("MARIA")>> >>)
               [] OTHER -> ErrorValue(UrlFor(CpfSources[i], GatherCpf), "ReadTimeout")]}

\* A mutant of the gather: the results come in the order the fetches ended.
GatherResultsAsCompleted(order) == [j \in 1..Len(order) |-> gather[order[j]]]

\* results = await asyncio.gather(*tasks): the results in the order of the
\* tasks, whatever the order in which they ended
GatherResults(order) == [i \in Sources |-> gather[i]]

InitOrder ==
    /\ gather = [i \in Sources |-> Pending]
    /\ cf \in {[pc |-> "gather_wait", responses |-> r, order |-> <<>>] :
                 r \in FixedResponses}
    /\ fetch = IdleFetch /\ CACHE = IdleCache /\ now = 0 /\ lastSet = IdleCache
    /\ got = IdleGot /\ cl = IdleClean /\ mg = IdleMerge
    /\ ChatIdle /\ HealthIdle

\* the fetch of one source ends with the answer of that source
OrderFetchDone ==
    /\ cf.pc = "gather_wait"
    /\ \E i \in Sources :
        /\ gather[i] = Pending
        /\ gather' = [gather EXCEPT ![i] = cf.responses[i]]
        /\ cf' = [cf EXCEPT !.order = Append(cf.order, i)]
    /\ UNCHANGED <<fetch, CACHE, now, lastSet, got, cl, mg, chatVars, healthVars>>

\* asyncio.gather returns once every fetch has ended; the handler filters,
\* cleans and merges the results
OrderGatherDone ==
    /\ cf.pc = "gather_wait"
    /\ \A i \in Sources : gather[i] # Pending
    /\ LET b == CpfFullBuild(GatherResults(cf.order))
       IN  cf' = [pc |-> b.pc, responses |-> cf.responses, order |-> cf.order,
                  merged |-> IF b.pc = "built" THEN b.merged ELSE Dict(<<>>)]
    /\ UNCHANGED <<gather, fetch, CACHE, now, lastSet, got, cl, mg, chatVars, healthVars>>

NextOrder == OrderFetchDone \/ OrderGatherDone

SpecCpfOrder == InitOrder /\ [][NextOrder]_vars

\* C20: the merge starts only when every fetch has ended, and what it builds
\* is the merge of the answers taken in the configuration order of the
\* sources: the same for every order in which the fetches ended.
C20_MergeIndependentOfCompletionOrder ==
    cf.pc # "gather_wait" =>
        /\ \A i \in Sources : gather[i] # Pending
        /\ Len(cf.order) = Len(CpfSources)
        /\ LET inOrder == [i \in Sources |-> cf.responses[i]]
           IN  /\ cf.pc = "all_failed" <=> ValidResults(inOrder) = <<>>
               /\ cf.pc = "built" =>
                     cf.merged = Merge(CleanAll(ValidResults(inOrder)))

\* C20 witness: two sources with different values under the same key ended
\* in the reverse of their configuration order, and the merge was built.
C20_Witness ==
    /\ cf.pc = "built"
    /\ cf.order[1] = 5 /\ cf.order[2] = 2
    /\ cf.merged = Dict(<<(<<"nome", List(<<Str("JOAO"), Str("MARIA")>>)>>)>>)

====
